---- MODULE Spec2Model ----
(***************************************************************************)
(* Press-and-hold recorder (main.py): the two touch handlers of the record *)
(* button, the record worker thread they start (Android AudioRecord loop   *)
(* or desktop sounddevice stream), the translate thread started on release *)
(* and the SarvamAI wrapper translate_audio_with_sarvamai.                 *)
(*                                                                         *)
(* Threads are indexed by the touch that started them: worker k is the     *)
(* thread created by on_record_press for touch k, translate thread k the   *)
(* one created by on_record_release for touch k.  The temp file a worker   *)
(* gets from mkstemp is named by the worker's index.                       *)
(***************************************************************************)
EXTENDS Integers, Sequences, FiniteSets, Bags, TLC

\* ---- bounds -------------------------------------------------------------
MaxTouch == 2     \* touches the user makes
MicLen == 3       \* samples the microphone can deliver to one recorder
AppMicLen == 1    \* the same, in runs with several touches
ChunkSize == 2    \* shorts in the Java buffer (chunk_size, from getMinBufferSize)
MaxFiles == 2     \* files found in the output directory

\* ---- program constants --------------------------------------------------
sample_rate == 16000
channels == 1
sampwidth == 2

Touches == 1..MaxTouch
Shorts == {-2, 258}                     \* 0xFFFE and 0x0102 as signed 16-bit
NoPath == 0                             \* self.wav_path = None

VARIABLES
  ANDROID,              \* module flag set by the jnius import
  HAVE_DESKTOP_AUDIO,   \* module flag set by the sounddevice import
  mic,                  \* the signal at the microphone (input)
  cloud,                \* how the sarvamai library and service behave (input)
  touch,                \* touch[k]: "idle", "down", "up"
  recording,            \* self.recording
  wav_path,             \* self.wav_path
  audio_thread,         \* self.audio_thread (index of the last worker, 0 = None)
  btn_text,             \* record_btn.text
  output,               \* output_box.text, as the bag of its lines
  w,                    \* w[k]: the record worker started by touch k
  fs,                   \* fs[p]: the file at temp path p
  tr                    \* tr[k]: the translate thread started by touch k

vars == <<ANDROID, HAVE_DESKTOP_AUDIO, mic, cloud, touch, recording, wav_path,
          audio_thread, btn_text, output, w, fs, tr>>

envVars == <<ANDROID, HAVE_DESKTOP_AUDIO, mic, cloud>>

\* ---- helpers -------------------------------------------------------------
Min(a, b) == IF a < b THEN a ELSE b

RECURSIVE SeqsUpTo(_, _)
SeqsUpTo(S, n) ==
  IF n = 0 THEN {<<>>}
  ELSE LET shorter == SeqsUpTo(S, n - 1)
       IN shorter \cup {Append(s, x) : s \in {t \in shorter : Len(t) = n - 1}, x \in S}

SeqsOfLen(S, n) == {s \in SeqsUpTo(S, n) : Len(s) = n}

\* struct.pack('<h', sval): two bytes, low byte first, two's complement
PackShort(sval) ==
  LET u == IF sval < 0 THEN sval + 65536 ELSE sval
  IN <<u % 256, u \div 256>>

RECURSIVE PackPrefix(_, _)
\* the bytearray built from the first `read` elements of java_buffer
PackPrefix(java_buffer, read) ==
  IF read = 0 THEN <<>>
  ELSE PackPrefix(java_buffer, read - 1) \o PackShort(java_buffer[read])

\* ar.read(java_buffer, 0, chunk_size) returning `read`: the first `read`
\* elements of the buffer are overwritten, the rest keep their old content
FillBuffer(java_buffer, samples) ==
  [i \in 1..Len(java_buffer) |->
     IF i <= Len(samples) THEN samples[i] ELSE java_buffer[i]]

\* b''.join([f.tobytes() for f in frames]) for int16 blocks
ToBytes(block) == PackPrefix(block, Len(block))

RECURSIVE JoinBlocks(_)
JoinBlocks(blocks) ==
  IF blocks = <<>> THEN <<>>
  ELSE ToBytes(Head(blocks)) \o JoinBlocks(Tail(blocks))

\* ---- output box ----------------------------------------------------------
NoMsg == [kind |-> "", at |-> "", parts |-> <<>>]

Line(text, path, msg) == [text |-> text, path |-> path, msg |-> msg]

\* append_output(txt): output_box.text += str(txt) + "\n".  The callback
\* that @mainthread schedules is taken with the step that schedules it, and
\* the text is kept as the bag of its lines.
append_output(box, line) == box (+) SetToBag({line})

\* ---- files ---------------------------------------------------------------
NoFile == [state |-> "absent", nchannels |-> 0, sampwidth |-> 0,
           framerate |-> 0, frames |-> <<>>]

\* tempfile.mkstemp + os.close: an empty file exists at the path
TempFile == [NoFile EXCEPT !.state = "empty"]

\* wave.open(path, 'wb') followed by the three setters
WaveOpen == [state |-> "open", nchannels |-> channels, sampwidth |-> 2,
             framerate |-> sample_rate, frames |-> <<>>]

DesktopWaveOpen == [state |-> "open", nchannels |-> channels,
                    sampwidth |-> sampwidth, framerate |-> sample_rate,
                    frames |-> <<>>]

writeframes(f, data) == [f EXCEPT !.frames = @ \o data]

WaveClose(f) == [f EXCEPT !.state = "closed"]

exists(p) == p # NoPath /\ fs[p].state # "absent"

\* ---- translate_audio_with_sarvamai ---------------------------------------
\* The external calls of the wrapper, in program order.  cloud.failAt names
\* the call that raises ("none": no call raises; "import": the local import
\* of the library fails).
JobCalls == <<"SarvamAI", "create_job", "upload_files", "start",
              "wait_until_complete", "is_failed", "makedirs",
              "download_outputs", "walk">>

FailPoints == {"none", "import"} \cup {JobCalls[i] : i \in 1..Len(JobCalls)}

JsonKeys == <<"text", "transcript", "translation", "translated_text">>

\* str.strip() on the file contents the model uses
Strip(raw) == IF raw = " hi " THEN "hi" ELSE IF raw = " " THEN "" ELSE raw

\* files download_outputs can leave in the output directory: ext is the
\* lower-cased suffix, ok says that open/read/json.load succeed, raw is the
\* text of a .txt file or the value of every key in keys of a .json file
OutFile(ext, ok, raw, keys) == [ext |-> ext, ok |-> ok, raw |-> raw, keys |-> keys]

FileKinds ==
  { OutFile("txt", FALSE, " hi ", {}), OutFile("txt", TRUE, " ", {}),
    OutFile("txt", TRUE, " hi ", {}),
    OutFile("json", FALSE, " hi ", {"text"}), OutFile("json", TRUE, " hi ", {}),
    OutFile("json", TRUE, " hi ", {"text"}), OutFile("json", TRUE, " ", {"text"}),
    OutFile("json", TRUE, " hi ", {"transcript", "translated_text"}),
    OutFile("other", TRUE, " hi ", {}) }

Clouds == [failAt : FailPoints, jobFailed : BOOLEAN,
           files : SeqsUpTo(FileKinds, MaxFiles)]

Part(i, key, text) == [file |-> i, key |-> key, text |-> text]

Outcome(calls, reads, success, kind, at, parts) ==
  [calls |-> calls, reads |-> reads, success |-> success,
   message |-> [kind |-> kind, at |-> at, parts |-> parts]]

RECURSIVE JsonParts(_, _, _)
\* for k in ('text', ...): if k in j and isinstance(j[k], str) and j[k].strip()
JsonParts(i, f, n) ==
  IF n > Len(JsonKeys) THEN <<>>
  ELSE (IF JsonKeys[n] \in f.keys /\ Strip(f.raw) # ""
          THEN <<Part(i, JsonKeys[n], Strip(f.raw))>> ELSE <<>>)
       \o JsonParts(i, f, n + 1)

\* ReadFile with the .txt read inside the try block as well
ReadFile_swallowed(i, f) ==
  [raised |-> FALSE,
   parts |-> IF f.ext = "txt" /\ f.ok /\ Strip(f.raw) # ""
               THEN <<Part(i, "txt", Strip(f.raw))>>
             ELSE IF f.ext = "json" /\ f.ok THEN JsonParts(i, f, 1)
             ELSE <<>>]

\* one file of the os.walk loop: the parts it adds to `aggregated`, or the
\* exception it raises; a failing .json file is skipped by `except: pass`
ReadFile(i, f) ==
  IF f.ext = "txt"
    THEN IF ~f.ok THEN [raised |-> TRUE, parts |-> <<>>]
         ELSE [raised |-> FALSE,
               parts |-> IF Strip(f.raw) # "" THEN <<Part(i, "txt", Strip(f.raw))>>
                         ELSE <<>>]
  ELSE IF f.ext = "json"
    THEN [raised |-> FALSE, parts |-> IF f.ok THEN JsonParts(i, f, 1) ELSE <<>>]
  ELSE [raised |-> FALSE, parts |-> <<>>]

RECURSIVE ReadOutputs(_, _, _, _, _)
\* the os.walk loop and the final return
ReadOutputs(c, calls, i, reads, aggregated) ==
  IF i > Len(c.files)
    THEN IF aggregated # <<>>
           THEN Outcome(calls, reads, TRUE, "aggregated", "", aggregated)
           ELSE Outcome(calls, reads, TRUE, "no_text", "", <<>>)
  ELSE LET r == ReadFile(i, c.files[i])
           opened == IF c.files[i].ext = "other" THEN reads ELSE Append(reads, i)
       IN IF r.raised
            THEN Outcome(calls, opened, FALSE, "error", "read", <<>>)
            ELSE ReadOutputs(c, calls, i + 1, opened, aggregated \o r.parts)

\* AfterIsFailed with the result of is_failed() ignored
AfterIsFailed_ignored(failed) == "continue"

\* what follows job.is_failed() returning `failed`
AfterIsFailed(failed) == IF failed THEN "return" ELSE "continue"

RECURSIVE RunJob(_, _, _)
\* the body of the second try block from call number n on
RunJob(c, n, calls) ==
  IF n > Len(JobCalls) THEN ReadOutputs(c, calls, 1, <<>>, <<>>)
  ELSE LET called == Append(calls, JobCalls[n])
       IN IF c.failAt = JobCalls[n]
            THEN Outcome(called, <<>>, FALSE, "error", JobCalls[n], <<>>)
          ELSE IF JobCalls[n] = "is_failed" /\ AfterIsFailed(c.jobFailed) = "return"
            THEN Outcome(called, <<>>, FALSE, "job_failed", "", <<>>)
          ELSE RunJob(c, n + 1, called)

translate_audio_with_sarvamai(c) ==
  IF c.failAt = "import"
    THEN Outcome(<<>>, <<>>, FALSE, "lib_missing", "", <<>>)
    ELSE RunJob(c, 1, <<>>)

\* ---- initial state -------------------------------------------------------
NoWorker ==
  [pc |-> "none",                       \* position of the thread
   arCreated |-> FALSE, arStopped |-> FALSE, arReleased |-> FALSE,
   java_buffer |-> [i \in 1..ChunkSize |-> 0],
   pos |-> 0,                           \* samples of mic already delivered
   delivered |-> <<>>,                  \* what ar.read has handed over so far
   frames |-> <<>>,                     \* the desktop callback's list of blocks
   stream |-> "none",                   \* sd.InputStream
   raised |-> ""]                       \* the call whose exception is in flight

NoThread ==
  [pc |-> "none", path |-> NoPath, called |-> FALSE, workerAtCall |-> "",
   success |-> FALSE, message |-> NoMsg, calls |-> <<>>, reads |-> <<>>]

\* RootWidget.__init__ and the KV layout
InitApp ==
  /\ touch = [k \in Touches |-> "idle"]
  /\ recording = FALSE
  /\ wav_path = NoPath
  /\ audio_thread = 0
  /\ btn_text = "Hold to Record"
  /\ output = EmptyBag
  /\ w = [k \in Touches |-> NoWorker]
  /\ fs = [p \in Touches |-> NoFile]
  /\ tr = [k \in Touches |-> NoThread]

\* the module-level import probes
InitPlatform ==
  /\ ANDROID \in BOOLEAN
  /\ HAVE_DESKTOP_AUDIO \in BOOLEAN
  /\ ANDROID => ~HAVE_DESKTOP_AUDIO

\* ---- the touch handlers --------------------------------------------------
\* on_touch_down of touch k reaches on_record_press; hit = collide_point
on_record_press(k, hit) ==
  /\ touch[k] = "idle"
  /\ IF k = 1 THEN TRUE ELSE touch[k - 1] # "idle"
  /\ touch' = [touch EXCEPT ![k] = "down"]
  /\ IF hit
       THEN /\ btn_text' = "Recording..."
            /\ audio_thread' = k
            /\ recording' = TRUE
            /\ w' = [w EXCEPT ![k].pc = "start"]
       ELSE UNCHANGED <<btn_text, audio_thread, recording, w>>
  /\ UNCHANGED <<envVars, wav_path, output, fs, tr>>

\* on_touch_up of touch k reaches on_record_release; hit = collide_point
on_record_release(k, hit) ==
  /\ touch[k] = "down"
  /\ touch' = [touch EXCEPT ![k] = "up"]
  /\ IF hit
       THEN /\ recording' = FALSE
            /\ btn_text' = "Hold to Record"
            /\ tr' = [tr EXCEPT ![k].pc = "sleep"]
       ELSE UNCHANGED <<recording, btn_text, tr>>
  /\ UNCHANGED <<envVars, wav_path, audio_thread, output, w, fs>>

\* ---- _record_worker ------------------------------------------------------
\* mkstemp, os.close, self.wav_path = path
WorkerStart(k) ==
  /\ w[k].pc = "start"
  /\ fs' = [fs EXCEPT ![k] = TempFile]
  /\ wav_path' = k
  /\ w' = [w EXCEPT ![k].pc = IF ANDROID THEN "setup" ELSE "desktop"]
  /\ UNCHANGED <<envVars, touch, recording, audio_thread, btn_text, output, tr>>

AndroidError(box) == append_output(box, Line("Android record error", NoPath, NoMsg))

\* _record_android_pcm up to ar.startRecording(); `fail` names the call that
\* raises: "ctor" (autoclass, getMinBufferSize or the AudioRecord
\* constructor), "state" (the getState check), "open" (wave.open),
\* "start" (jarray or startRecording), or "" when none does
AndroidSetup(k, fail) ==
  /\ w[k].pc = "setup"
  /\ LET started == append_output(output,
                      Line("Starting Android AudioRecord capture", NoPath, NoMsg))
     IN IF fail = ""
          THEN /\ w' = [w EXCEPT ![k].pc = "loop", ![k].arCreated = TRUE]
               /\ fs' = [fs EXCEPT ![k] = WaveOpen]
               /\ output' = append_output(started,
                              Line("Recording (Android) ... speak now", NoPath, NoMsg))
          ELSE /\ w' = [w EXCEPT ![k].pc = "done", ![k].arCreated = (fail # "ctor"),
                                 ![k].raised = fail]
               /\ fs' = IF fail = "start" THEN [fs EXCEPT ![k] = WaveOpen] ELSE fs
               /\ output' = AndroidError(started)
  /\ UNCHANGED <<envVars, touch, recording, wav_path, audio_thread, btn_text, tr>>

\* while self.recording:
AndroidLoop(k) ==
  /\ w[k].pc = "loop"
  /\ w' = [w EXCEPT ![k].pc = IF recording THEN "read" ELSE "finally"]
  /\ UNCHANGED <<envVars, touch, recording, wav_path, audio_thread, btn_text,
                 output, fs, tr>>

\* LoopBytes packing the whole buffer instead of its first `read` shorts
LoopBytes_whole(java_buffer, read) == PackPrefix(java_buffer, Len(java_buffer))

\* the frames one pass of the loop body hands to wf.writeframes
LoopBytes(java_buffer, read) == PackPrefix(java_buffer, read)

\* read = ar.read(java_buffer, 0, chunk_size) raises
AndroidReadRaises(k) ==
  /\ w[k].pc = "read"
  /\ w' = [w EXCEPT ![k].pc = "finally", ![k].raised = "read"]
  /\ UNCHANGED <<envVars, touch, recording, wav_path, audio_thread, btn_text,
                 output, fs, tr>>

\* one pass of the loop body: ar.read returns `read`; for read > 0 the
\* first `read` shorts are packed and written (writeOK: writeframes returns)
AndroidRead(k, read, writeOK) ==
  /\ w[k].pc = "read"
  /\ read <= Min(ChunkSize, Len(mic) - w[k].pos)
  /\ IF read > 0
       THEN LET samples == SubSeq(mic, w[k].pos + 1, w[k].pos + read)
                filled == FillBuffer(w[k].java_buffer, samples)
            IN /\ w' = [w EXCEPT ![k].java_buffer = filled,
                                 ![k].pos = @ + read,
                                 ![k].delivered = @ \o samples,
                                 ![k].pc = IF writeOK THEN "loop" ELSE "finally",
                                 ![k].raised = IF writeOK THEN @ ELSE "writeframes"]
               /\ fs' = IF writeOK
                          THEN [fs EXCEPT ![k] = writeframes(@, LoopBytes(filled, read))]
                          ELSE fs
       ELSE /\ writeOK
            /\ w' = [w EXCEPT ![k].pc = "loop"]
            /\ fs' = fs
  /\ UNCHANGED <<envVars, touch, recording, wav_path, audio_thread, btn_text,
                 output, tr>>

\* the finally block; `fail` names the call that raises inside the inner
\* try ("stop", "release" or ""); then the except clause of _record_worker
AndroidFinally(k, fail) ==
  /\ w[k].pc = "finally"
  /\ w' = [w EXCEPT ![k].pc = "done",
                    ![k].arStopped = (fail # "stop"),
                    ![k].arReleased = (fail = "")]
  /\ fs' = [fs EXCEPT ![k] = WaveClose(@)]
  /\ LET saved == append_output(output, Line("Saved WAV to", k, NoMsg))
     IN output' = IF w[k].raised # "" THEN AndroidError(saved) ELSE saved
  /\ UNCHANGED <<envVars, touch, recording, wav_path, audio_thread, btn_text, tr>>

DesktopError(box) == append_output(box, Line("Desktop record error", NoPath, NoMsg))

\* the desktop branch up to entering the with block (streamOK: the
\* InputStream opens)
DesktopSetup(k, streamOK) ==
  /\ w[k].pc = "desktop"
  /\ IF ~HAVE_DESKTOP_AUDIO
       THEN /\ streamOK
            /\ output' = append_output(output,
                           Line("Desktop audio libs not available", NoPath, NoMsg))
            /\ w' = [w EXCEPT ![k].pc = "done"]
       ELSE LET started == append_output(output,
                             Line("Starting desktop capture", NoPath, NoMsg))
            IN IF streamOK
                 THEN /\ output' = started
                      /\ w' = [w EXCEPT ![k].pc = "dloop", ![k].stream = "active"]
                 ELSE /\ output' = DesktopError(started)
                      /\ w' = [w EXCEPT ![k].pc = "done", ![k].raised = "InputStream"]
  /\ UNCHANGED <<envVars, touch, recording, wav_path, audio_thread, btn_text, fs, tr>>

\* callback(indata, ...) on the audio thread with a block of n samples
DesktopCallback(k, n) ==
  /\ w[k].stream = "active"
  /\ IF ~recording
       THEN /\ n = 1
            /\ w' = [w EXCEPT ![k].stream = "stopped"]       \* raise sd.CallbackStop()
       ELSE /\ n <= Min(ChunkSize, Len(mic) - w[k].pos)
            /\ w' = [w EXCEPT ![k].frames =
                                Append(@, SubSeq(mic, w[k].pos + 1, w[k].pos + n)),
                              ![k].pos = @ + n]
  /\ UNCHANGED <<envVars, touch, recording, wav_path, audio_thread, btn_text,
                 output, fs, tr>>

\* while self.recording: -- the pass that finds the flag cleared leaves the
\* with block, which closes the stream
DesktopLoop(k) ==
  /\ w[k].pc = "dloop"
  /\ w' = IF recording
            THEN [w EXCEPT ![k].pc = "sleep"]
            ELSE [w EXCEPT ![k].pc = "write", ![k].stream = "closed"]
  /\ UNCHANGED <<envVars, touch, recording, wav_path, audio_thread, btn_text,
                 output, fs, tr>>

\* time.sleep(0.05)
DesktopSleep(k) ==
  /\ w[k].pc = "sleep"
  /\ w' = [w EXCEPT ![k].pc = "dloop"]
  /\ UNCHANGED <<envVars, touch, recording, wav_path, audio_thread, btn_text,
                 output, fs, tr>>

\* the bytes the desktop branch writes
DesktopData(frames) == JoinBlocks(frames)

\* data = b''.join(...); with wave.open(path, 'wb') as wf: ...; `fail` names
\* the call that raises ("open", "writeframes" or "")
DesktopWrite(k, fail) ==
  /\ w[k].pc = "write"
  /\ fs' = [fs EXCEPT ![k] =
              IF fail = "open" THEN @
              ELSE IF fail = "writeframes" THEN WaveClose(DesktopWaveOpen)
              ELSE WaveClose(writeframes(DesktopWaveOpen, DesktopData(w[k].frames)))]
  /\ w' = [w EXCEPT ![k].pc = "done", ![k].raised = fail]
  /\ output' = IF fail = "" THEN append_output(output, Line("Saved WAV to", k, NoMsg))
               ELSE DesktopError(output)
  /\ UNCHANGED <<envVars, touch, recording, wav_path, audio_thread, btn_text, tr>>

\* ---- _post_process_and_translate -----------------------------------------
\* time.sleep(0.2); path = self.wav_path; the existence test
TranslateCheck(k) ==
  /\ tr[k].pc = "sleep"
  /\ IF exists(wav_path)
       THEN /\ tr' = [tr EXCEPT ![k].pc = "call", ![k].path = wav_path]
            /\ output' = append_output(output,
                           Line("Starting translation upload...", NoPath, NoMsg))
       ELSE /\ tr' = [tr EXCEPT ![k].pc = "done", ![k].path = wav_path]
            /\ output' = append_output(output,
                           Line("No recorded file found.", NoPath, NoMsg))
  /\ UNCHANGED <<envVars, touch, recording, wav_path, audio_thread, btn_text, w, fs>>

\* the lines appended after the wrapper returns
ResultLines(box, res) ==
  IF res.success
    THEN append_output(append_output(box, Line("Translation result:", NoPath, NoMsg)),
                       Line("", NoPath, res.message))
    ELSE append_output(box, Line("Translation failed: ", NoPath, res.message))

\* success, message = translate_audio_with_sarvamai(path, ...) and the report
TranslateCall(k) ==
  /\ tr[k].pc = "call"
  /\ LET res == translate_audio_with_sarvamai(cloud)
     IN /\ tr' = [tr EXCEPT ![k].pc = "done", ![k].called = TRUE,
                            ![k].workerAtCall = w[tr[k].path].pc,
                            ![k].success = res.success, ![k].message = res.message,
                            ![k].calls = res.calls, ![k].reads = res.reads]
        /\ output' = ResultLines(output, res)
  /\ UNCHANGED <<envVars, touch, recording, wav_path, audio_thread, btn_text, w, fs>>

\* ---- specifications ------------------------------------------------------
Press(k) == \E hit \in BOOLEAN : on_record_press(k, hit)

Release(k) == \E hit \in BOOLEAN : on_record_release(k, hit)

AndroidWorker(k) ==
  \/ \E fail \in {"", "ctor", "state", "open", "start"} : AndroidSetup(k, fail)
  \/ AndroidLoop(k)
  \/ AndroidReadRaises(k)
  \/ \E read \in -1..ChunkSize, writeOK \in BOOLEAN : AndroidRead(k, read, writeOK)
  \/ \E fail \in {"", "stop", "release"} : AndroidFinally(k, fail)

DesktopWorker(k) ==
  \/ \E streamOK \in BOOLEAN : DesktopSetup(k, streamOK)
  \/ DesktopLoop(k)
  \/ DesktopSleep(k)
  \/ \E fail \in {"", "open", "writeframes"} : DesktopWrite(k, fail)

Worker(k) == WorkerStart(k) \/ AndroidWorker(k) \/ DesktopWorker(k)

AudioThread(k) == \E n \in 1..ChunkSize : DesktopCallback(k, n)

Translator(k) == TranslateCheck(k) \/ TranslateCall(k)

Next ==
  \E k \in Touches :
    Press(k) \/ Release(k) \/ Worker(k) \/ AudioThread(k) \/ Translator(k)

\* a fixed signal and two behaviours of the service
AppSignal == [i \in 1..AppMicLen |-> IF i % 2 = 1 THEN -2 ELSE 258]

AppClouds ==
  { [failAt |-> "none", jobFailed |-> FALSE,
     files |-> <<OutFile("txt", TRUE, " hi ", {})>>],
    [failAt |-> "none", jobFailed |-> TRUE, files |-> <<>>] }

Init ==
  /\ InitPlatform
  /\ mic = AppSignal
  /\ cloud \in AppClouds
  /\ InitApp

Spec == Init /\ [][Next]_vars

\* the worker threads, the audio thread and the translate threads are
\* scheduled fairly; the user's touches are not
FairSpec ==
  /\ Spec
  /\ \A k \in Touches :
       WF_vars(Worker(k)) /\ WF_vars(AudioThread(k)) /\ WF_vars(Translator(k))

\* one touch, every signal of MicLen samples
RecCloud == [failAt |-> "none", jobFailed |-> FALSE, files |-> <<>>]

InitRec ==
  /\ InitPlatform
  /\ mic \in SeqsOfLen(Shorts, MicLen)
  /\ cloud = RecCloud
  /\ InitApp

NextRec == Press(1) \/ Release(1) \/ Worker(1) \/ AudioThread(1) \/ Translator(1)

SpecRec == InitRec /\ [][NextRec]_vars

\* one touch on a desktop without the audio libraries (the worker leaves the
\* empty temp file behind), every behaviour of the service
InitTranslate ==
  /\ ANDROID = FALSE
  /\ HAVE_DESKTOP_AUDIO = FALSE
  /\ mic = AppSignal
  /\ cloud \in Clouds
  /\ InitApp

NextTranslate ==
  \/ Press(1)
  \/ Release(1)
  \/ WorkerStart(1)
  \/ DesktopSetup(1, TRUE)
  \/ Translator(1)

SpecTranslate == InitTranslate /\ [][NextTranslate]_vars

\* ---- properties ----------------------------------------------------------
Capturing(k) == w[k].pc \in {"loop", "read", "dloop", "sleep"}

ResultShown(k) ==
  \/ /\ tr[k].success
     /\ BagIn(Line("Translation result:", NoPath, NoMsg), output)
     /\ BagIn(Line("", NoPath, tr[k].message), output)
  \/ /\ ~tr[k].success
     /\ BagIn(Line("Translation failed: ", NoPath, tr[k].message), output)

\* C1: on a platform that can record, once the translate thread started by
\* releasing a touch that was pressed on the record button has finished, the
\* WAV file has been written,
\* it has been submitted to the API, and the output box holds either
\* "Translation result:" and the message or a "Translation failed: ..." line.
C1_ReleaseEndsInTranslation ==
  \A k \in Touches :
    ((ANDROID \/ HAVE_DESKTOP_AUDIO) /\ w[k].pc # "none" /\ tr[k].pc = "done") =>
      /\ fs[k].state = "closed"
      /\ tr[k].called /\ tr[k].path = k
      /\ ResultShown(k)

\* a failure that happened during the call: the import, a call that was
\* reached and raised, or an output file that could not be read
CallRaised(k) ==
  \/ cloud.failAt = "import"
  \/ \E i \in 1..Len(tr[k].calls) : tr[k].calls[i] = cloud.failAt

ReadFailed(k, exts) ==
  \E i \in 1..Len(tr[k].reads) :
    LET f == cloud.files[tr[k].reads[i]] IN f.ext \in exts /\ ~f.ok

Called(k, call) == \E i \in 1..Len(tr[k].calls) : tr[k].calls[i] = call

SuccessOnlyAfterDownload(k) ==
  tr[k].success =>
    /\ Called(k, "wait_until_complete") /\ Called(k, "is_failed")
    /\ ~cloud.jobFailed
    /\ Called(k, "download_outputs") /\ cloud.failAt # "download_outputs"

IsPair(k) ==
  /\ tr[k].success \in BOOLEAN
  /\ tr[k].message.kind \in
       {"aggregated", "no_text", "job_failed", "lib_missing", "error"}
  /\ tr[k].success <=> tr[k].message.kind \in {"aggregated", "no_text"}

\* C2 as stated: the wrapper returns a pair; every failure of the import, of
\* a library call or of reading an output file gives (False, message);
\* success is True only after a job that did not fail and a download.
C2_EveryFailureIsFalse ==
  \A k \in Touches :
    tr[k].called =>
      /\ IsPair(k)
      /\ (CallRaised(k) \/ ReadFailed(k, {"txt", "json"})) => ~tr[k].success
      /\ SuccessOnlyAfterDownload(k)

\* C2 amended: the same, except that a .json output file that cannot be
\* opened or parsed is skipped and does not make the result False.
C2_FailureIsFalseExceptJson ==
  \A k \in Touches :
    tr[k].called =>
      /\ IsPair(k)
      /\ (CallRaised(k) \/ ReadFailed(k, {"txt"})) =>
            ~tr[k].success /\ tr[k].message.kind \in {"lib_missing", "error"}
      /\ (~CallRaised(k) /\ ~ReadFailed(k, {"txt"}) /\ ~cloud.jobFailed) =>
            tr[k].success
      /\ SuccessOnlyAfterDownload(k)

C2_Witness ==
  \E k \in Touches :
    /\ tr[k].called /\ ReadFailed(k, {"txt"}) /\ ~tr[k].success
    /\ Called(k, "download_outputs")

\* C3: a record worker whose touch has been released (wherever the touch-up
\* lands) eventually terminates.
C3_ReleaseStopsWorker ==
  \A k \in Touches : (w[k].pc # "none" /\ touch[k] = "up") ~> (w[k].pc = "done")

\* two bytes, low byte first, read as a signed 16-bit value
DecodeShort(lo, hi) ==
  LET u == lo + 256 * hi IN IF u >= 32768 THEN u - 65536 ELSE u

RECURSIVE Decode(_)
Decode(bytes) ==
  IF Len(bytes) < 2 THEN <<>>
  ELSE <<DecodeShort(bytes[1], bytes[2])>> \o Decode(SubSeq(bytes, 3, Len(bytes)))

RECURSIVE Flatten(_)
Flatten(blocks) ==
  IF blocks = <<>> THEN <<>> ELSE Head(blocks) \o Flatten(Tail(blocks))

\* what worker k was handed: ar.read's samples on Android, the callback's
\* blocks on desktop
Captured(k) == IF ANDROID THEN w[k].delivered ELSE Flatten(w[k].frames)

WavParams(k) ==
  /\ fs[k].nchannels = 1
  /\ fs[k].sampwidth = 2
  /\ fs[k].framerate = 16000

C5_FileClosedAtCall ==
  \A k \in Touches :
    tr[k].called => tr[k].workerAtCall = "done"

Before(k, a, b) ==
  \A j \in 1..Len(tr[k].calls) :
    tr[k].calls[j] = b => \E i \in 1..(j - 1) : tr[k].calls[i] = a

Once(k, a) ==
  Cardinality({i \in 1..Len(tr[k].calls) : tr[k].calls[i] = a}) <= 1

\* C6: the job calls happen in the order create_job, upload_files, start,
\* wait_until_complete; download_outputs comes only after
\* wait_until_complete and is_failed and only for a job that did not fail;
\* a failed job gives (False, "STT job failed.") with no download and no
\* output file read.
C6_JobOrder ==
  \A k \in Touches :
    tr[k].called =>
      /\ Before(k, "create_job", "upload_files")
      /\ Before(k, "upload_files", "start")
      /\ Before(k, "start", "wait_until_complete")
      /\ Before(k, "wait_until_complete", "is_failed")
      /\ Before(k, "is_failed", "download_outputs")
      /\ \A c \in {"create_job", "upload_files", "start", "wait_until_complete",
                   "is_failed", "download_outputs"} : Once(k, c)
      /\ Called(k, "download_outputs") => ~cloud.jobFailed
      /\ (cloud.jobFailed /\ Called(k, "is_failed") /\ cloud.failAt # "is_failed") =>
           /\ ~tr[k].success /\ tr[k].message.kind = "job_failed"
           /\ ~Called(k, "download_outputs")
           /\ tr[k].reads = <<>>

C6_Witness ==
  \E k \in Touches :
    /\ tr[k].called /\ cloud.jobFailed /\ tr[k].message.kind = "job_failed"
    /\ Called(k, "wait_until_complete")

\* C7: when _record_android_pcm has been left after creating the
\* AudioRecord, the AudioRecord has been stopped and released and the WAV
\* file closed.
C7_ReleasedOnExit ==
  \A k \in Touches :
    (ANDROID /\ w[k].pc = "done" /\ w[k].arCreated) =>
      /\ w[k].arStopped /\ w[k].arReleased
      /\ fs[k].state = "closed"

\* C8: at most one record worker is inside its capture loop at any time.
C8_OneCapturing == Cardinality({k \in Touches : Capturing(k)}) <= 1

====
